---- MODULE Spec2Model ----
(***************************************************************************)
(* Local value numbering / dead code elimination pass over Bril programs   *)
(* (transforms/lvn/src/main.rs): control-flow-graph construction, the      *)
(* per-block LVN/DCE rewrite, flattening, and the driver loop of main.     *)
(*                                                                         *)
(* Rust values are represented as follows.  Option<T> is a sequence of     *)
(* length at most one (None = <<>>, Some(x) = <<x>>); Vec<T> is a          *)
(* sequence; HashMap<K,V> is a function on the finite set of its keys;     *)
(* HashSet<T> is a set.  Block indices stored in data (next_blocks,        *)
(* label_to_block_index) keep the source's 0-based values, so block k of   *)
(* the source is blocks[k + 1] here.  A panic is recorded by its message.  *)
(***************************************************************************)
EXTENDS Integers, Sequences, FiniteSets, TLC

VARIABLES
    buffer,     \* the document read from stdin, as the Program it encodes
    program,    \* main's `program`, mutated function by function
    pc,         \* position of main: "parse", "build", "lvn", "print", "done", "panicked"
    fi,         \* position of main's loop over program.functions (1-based)
    cfg,        \* the ControlFlowGraph of the function being processed
    bi,         \* position of eliminate_dead_code's loop over cfg.blocks (1-based)
    panic,      \* message of the panic that ended the run, or NoPanic
    stdout      \* what println! wrote: <<>> or <<program>>

vars == <<buffer, program, pc, fi, cfg, bi, panic, stdout>>

----------------------------------------------------------------------------
(* Option and HashMap helpers                                              *)

None == <<>>
Some(x) == <<x>>
is_some(o) == o # <<>>
unwrap(o) == o[1]

NoPanic == "no panic"
LabelNotFound == "Label not found"
NoOpFound == "No op found"
NoNumberForVariable == "No number for variable"
NoCanonicalDest == "No canonical dest for number"
UnwrapOnNone == "called Option::unwrap() on a None value"

EmptyMap == [k \in {} |-> 0]
map_insert(m, k, v) == [x \in (DOMAIN m) \cup {k} |-> IF x = k THEN v ELSE m[x]]

----------------------------------------------------------------------------
(* IR model                                                                *)

Instruction(op, dest, value, type, args, labels, label) ==
    [op |-> op, dest |-> dest, value |-> value, type |-> type,
     args |-> args, labels |-> labels, label |-> label]

is_terminator(instr) ==
    IF is_some(instr.op)
    THEN unwrap(instr.op) = "jmp" \/ unwrap(instr.op) = "br" \/ unwrap(instr.op) = "ret"
    ELSE FALSE

is_label(instr) == is_some(instr.label)

DefaultBlock == [instrs |-> <<>>, next_blocks |-> <<>>]

----------------------------------------------------------------------------
(* ControlFlowGraph::to_instrs                                             *)

RECURSIVE extend_blocks(_, _, _)
extend_blocks(blocks, i, result) ==
    IF i > Len(blocks) THEN result
    ELSE extend_blocks(blocks, i + 1, result \o blocks[i].instrs)

to_instrs(g) == extend_blocks(g.blocks, 1, <<>>)

----------------------------------------------------------------------------
(* construct_control_flow_graph                                            *)

\* The flush_block closure: st = [blocks, cur].
flush_block(st) ==
    IF st.cur.instrs # <<>>
    THEN [blocks |-> Append(st.blocks, st.cur), cur |-> DefaultBlock]
    ELSE st

\* A scan step that does not end the block at a terminator.
push_instr_no_terminator_flush(st, instr) ==
    LET s1 == IF is_label(instr) THEN flush_block(st) ELSE st
    IN [s1 EXCEPT !.cur.instrs = Append(@, instr)]

\* Body of the scan loop over function.instrs.
push_instr(st, instr) ==
    LET s1 == IF is_label(instr) THEN flush_block(st) ELSE st
        s2 == [s1 EXCEPT !.cur.instrs = Append(@, instr)]
    IN IF is_terminator(instr) THEN flush_block(s2) ELSE s2

RECURSIVE scan_instrs(_, _, _)
scan_instrs(instrs, i, st) ==
    IF i > Len(instrs) THEN st
    ELSE scan_instrs(instrs, i + 1, push_instr(st, instrs[i]))

form_blocks(instrs) ==
    flush_block(scan_instrs(instrs, 1, [blocks |-> <<>>, cur |-> DefaultBlock])).blocks

RECURSIVE label_to_block_index(_, _, _)
label_to_block_index(blocks, i, m) ==
    IF i > Len(blocks) THEN m
    ELSE label_to_block_index(blocks, i + 1,
            IF is_some(blocks[i].instrs[1].label)
            THEN map_insert(m, unwrap(blocks[i].instrs[1].label), i - 1)
            ELSE m)

\* A label lookup that skips a missing label instead of panicking.
RECURSIVE target_indices_skip_missing(_, _, _, _)
target_indices_skip_missing(labels, k, m, acc) ==
    IF k > Len(labels) THEN [err |-> NoPanic, next_blocks |-> acc]
    ELSE target_indices_skip_missing(labels, k + 1, m,
            IF labels[k] \in DOMAIN m THEN Append(acc, m[labels[k]]) ELSE acc)

\* A label lookup that pushes the targets in reverse order.
RECURSIVE target_indices_reversed(_, _, _, _)
target_indices_reversed(labels, k, m, acc) ==
    IF k > Len(labels) THEN [err |-> NoPanic, next_blocks |-> acc]
    ELSE IF labels[k] \notin DOMAIN m THEN [err |-> LabelNotFound, next_blocks |-> acc]
    ELSE target_indices_reversed(labels, k + 1, m, <<m[labels[k]]>> \o acc)

\* The loop over the labels of the terminator.
RECURSIVE target_indices(_, _, _, _)
target_indices(labels, k, m, acc) ==
    IF k > Len(labels) THEN [err |-> NoPanic, next_blocks |-> acc]
    ELSE IF labels[k] \notin DOMAIN m THEN [err |-> LabelNotFound, next_blocks |-> acc]
    ELSE target_indices(labels, k + 1, m, Append(acc, m[labels[k]]))

\* Successors of the block at 0-based index i.
populate_block(block, i, m) ==
    IF block.instrs # <<>>
    THEN LET instr == block.instrs[Len(block.instrs)]
         IN IF is_terminator(instr)
            THEN target_indices(instr.labels, 1, m, block.next_blocks)
            ELSE [err |-> NoPanic, next_blocks |-> Append(block.next_blocks, i + 1)]
    ELSE [err |-> NoPanic, next_blocks |-> block.next_blocks]

RECURSIVE populate_next_blocks(_, _, _)
populate_next_blocks(blocks, i, m) ==
    IF i > Len(blocks) THEN [err |-> NoPanic, blocks |-> blocks]
    ELSE LET r == populate_block(blocks[i], i - 1, m)
         IN IF r.err # NoPanic THEN [err |-> r.err, blocks |-> blocks]
            ELSE populate_next_blocks(
                    [blocks EXCEPT ![i].next_blocks = r.next_blocks], i + 1, m)

construct_control_flow_graph(function) ==
    LET blocks == form_blocks(function.instrs)
        m == label_to_block_index(blocks, 1, EmptyMap)
        r == populate_next_blocks(blocks, 1, m)
    IN [err |-> r.err, cfg |-> [blocks |-> r.blocks]]

----------------------------------------------------------------------------
(* run_local_value_numbering                                               *)

\* enum Expression { Op(String, Vec<usize>), Const(i64) }
OpExpr(op, args) == [tag |-> "Op", op |-> op, args |-> args, lit |-> <<>>]
ConstExpr(v) == [tag |-> "Const", op |-> "", args |-> <<>>, lit |-> <<v>>]

\* args.iter().map(|arg| *variable_to_number.get(arg).expect(..)).collect()
RECURSIVE args_to_numbers(_, _, _, _)
args_to_numbers(args, k, v2n, acc) ==
    IF k > Len(args) THEN [err |-> NoPanic, numbers |-> acc]
    ELSE IF args[k] \notin DOMAIN v2n
         THEN [err |-> NoNumberForVariable, numbers |-> acc]
         ELSE args_to_numbers(args, k + 1, v2n, Append(acc, v2n[args[k]]))

\* The expression of a destination-bearing instruction with opcode op.
expression_of(instr, op, v2n) ==
    IF op = "const"
    THEN IF is_some(instr.value)
         THEN [err |-> NoPanic, expression |-> ConstExpr(unwrap(instr.value))]
         ELSE [err |-> UnwrapOnNone, expression |-> ConstExpr(0)]
    ELSE LET a == args_to_numbers(instr.args, 1, v2n, <<>>)
         IN [err |-> a.err, expression |-> OpExpr(op, a.numbers)]

\* for arg in &instr.args { used_numbers.insert(*variable_to_number.get(arg).expect(..)) }
RECURSIVE mark_used(_, _, _, _)
mark_used(args, k, v2n, used) ==
    IF k > Len(args) THEN [err |-> NoPanic, used_numbers |-> used]
    ELSE IF args[k] \notin DOMAIN v2n
         THEN [err |-> NoNumberForVariable, used_numbers |-> used]
         ELSE mark_used(args, k + 1, v2n, used \cup {v2n[args[k]]})

\* State of the first loop.
NumberingInit ==
    [variable_to_number |-> EmptyMap,
     expression_to_number |-> EmptyMap,
     number_to_expression |-> EmptyMap,
     next_number |-> 0,
     used_numbers |-> {},
     instruction_numbers |-> <<>>,
     err |-> NoPanic]

\* Body of the first loop: number one instruction.
number_instr(s, instr) ==
    IF is_some(instr.dest)
    THEN IF ~is_some(instr.op) THEN [s EXCEPT !.err = NoOpFound]
         ELSE LET op == unwrap(instr.op)
                  ex == expression_of(instr, op, s.variable_to_number)
                  fresh == ex.expression \notin DOMAIN s.expression_to_number
                  number == IF fresh THEN s.next_number
                            ELSE s.expression_to_number[ex.expression]
              IN IF ex.err # NoPanic THEN [s EXCEPT !.err = ex.err]
                 ELSE [s EXCEPT
                        !.expression_to_number =
                            IF fresh THEN map_insert(@, ex.expression, number) ELSE @,
                        !.next_number = IF fresh THEN @ + 1 ELSE @,
                        !.number_to_expression = map_insert(@, number, ex.expression),
                        !.variable_to_number = map_insert(@, unwrap(instr.dest), number),
                        !.instruction_numbers = Append(@, Some(number))]
    ELSE LET u == IF is_some(instr.op)
                  THEN mark_used(instr.args, 1, s.variable_to_number, s.used_numbers)
                  ELSE [err |-> NoPanic, used_numbers |-> s.used_numbers]
         IN IF u.err # NoPanic THEN [s EXCEPT !.err = u.err]
            ELSE [s EXCEPT !.used_numbers = u.used_numbers,
                           !.instruction_numbers = Append(@, None)]

RECURSIVE number_instrs(_, _, _)
number_instrs(instrs, i, s) ==
    IF i > Len(instrs) \/ s.err # NoPanic THEN s
    ELSE number_instrs(instrs, i + 1, number_instr(s, instrs[i]))

\* queue.extend(used_numbers.clone()): some iteration order of the HashSet.
RECURSIVE set_to_queue(_)
set_to_queue(S) ==
    IF S = {} THEN <<>>
    ELSE LET x == CHOOSE y \in S : TRUE IN <<x>> \o set_to_queue(S \ {x})

\* for arg in args { if used.contains(arg) { continue } used.insert; queue.push_back }
RECURSIVE visit_args(_, _, _, _)
visit_args(args, k, used, queue) ==
    IF k > Len(args) THEN [used_numbers |-> used, queue |-> queue]
    ELSE IF args[k] \in used THEN visit_args(args, k + 1, used, queue)
         ELSE visit_args(args, k + 1, used \cup {args[k]}, Append(queue, args[k]))

\* The worklist loop: while !queue.is_empty() { ... }
RECURSIVE liveness_closure(_, _, _)
liveness_closure(queue, used, n2e) ==
    IF queue = <<>> THEN used
    ELSE LET number == Head(queue)
             expression == n2e[number]
             r == IF expression.tag = "Op"
                  THEN visit_args(expression.args, 1, used, Tail(queue))
                  ELSE [used_numbers |-> used, queue |-> Tail(queue)]
         IN liveness_closure(r.queue, r.used_numbers, n2e)

\* for arg in new_instr.args.iter_mut() { *arg = canonical dest of its number }
RECURSIVE rewrite_args(_, _, _, _, _)
rewrite_args(args, k, v2n, canon, acc) ==
    IF k > Len(args) THEN [err |-> NoPanic, args |-> acc]
    ELSE IF args[k] \notin DOMAIN v2n THEN [err |-> NoNumberForVariable, args |-> acc]
    ELSE IF v2n[args[k]] \notin DOMAIN canon THEN [err |-> NoCanonicalDest, args |-> acc]
    ELSE rewrite_args(args, k + 1, v2n, canon, Append(acc, canon[v2n[args[k]]]))

\* State of the last loop.
RewriteInit(used) ==
    [new_instrs |-> <<>>,
     number_to_canonical_dest |-> EmptyMap,
     new_variable_to_number |-> EmptyMap,
     used_numbers |-> used,
     err |-> NoPanic]

\* A last-loop body that treats an instruction with neither destination
\* nor opcode (a label marker) as dead and drops it.
rewrite_instr_drops_markers(t, instr, inum) ==
    IF is_some(inum)
    THEN LET number == unwrap(inum)
             dest == unwrap(instr.dest)
             v2n == map_insert(t.new_variable_to_number, dest, number)
         IN IF number \in t.used_numbers
            THEN LET canon == map_insert(t.number_to_canonical_dest, number, dest)
                     r == rewrite_args(instr.args, 1, v2n, canon, <<>>)
                 IN IF r.err # NoPanic
                    THEN [t EXCEPT !.err = r.err]
                    ELSE [t EXCEPT
                            !.new_variable_to_number = v2n,
                            !.number_to_canonical_dest = canon,
                            !.new_instrs = Append(@, [instr EXCEPT !.args = r.args]),
                            !.used_numbers = @ \ {number}]
            ELSE [t EXCEPT !.new_variable_to_number = v2n]
    ELSE IF ~is_some(instr.op) THEN t
    ELSE LET r == rewrite_args(instr.args, 1, t.new_variable_to_number,
                               t.number_to_canonical_dest, <<>>)
         IN IF r.err # NoPanic
            THEN [t EXCEPT !.err = r.err]
            ELSE [t EXCEPT !.new_instrs = Append(@, [instr EXCEPT !.args = r.args])]

\* Body of the last loop: keep and rewrite, or drop, one instruction.
rewrite_instr(t, instr, inum) ==
    IF is_some(inum)
    THEN LET number == unwrap(inum)
             dest == unwrap(instr.dest)
             v2n == map_insert(t.new_variable_to_number, dest, number)
         IN IF number \in t.used_numbers
            THEN LET canon == map_insert(t.number_to_canonical_dest, number, dest)
                     r == rewrite_args(instr.args, 1, v2n, canon, <<>>)
                 IN IF r.err # NoPanic
                    THEN [t EXCEPT !.err = r.err]
                    ELSE [t EXCEPT
                            !.new_variable_to_number = v2n,
                            !.number_to_canonical_dest = canon,
                            !.new_instrs = Append(@, [instr EXCEPT !.args = r.args]),
                            !.used_numbers = @ \ {number}]
            ELSE [t EXCEPT !.new_variable_to_number = v2n]
    ELSE LET r == rewrite_args(instr.args, 1, t.new_variable_to_number,
                               t.number_to_canonical_dest, <<>>)
         IN IF r.err # NoPanic
            THEN [t EXCEPT !.err = r.err]
            ELSE [t EXCEPT !.new_instrs = Append(@, [instr EXCEPT !.args = r.args])]

RECURSIVE rewrite_instrs(_, _, _, _)
rewrite_instrs(instrs, inums, i, t) ==
    IF i > Len(instrs) \/ t.err # NoPanic THEN t
    ELSE rewrite_instrs(instrs, inums, i + 1, rewrite_instr(t, instrs[i], inums[i]))

\* The whole pass on one block: [err, block].
run_local_value_numbering(block) ==
    LET s == number_instrs(block.instrs, 1, NumberingInit)
    IN IF s.err # NoPanic THEN [err |-> s.err, block |-> block]
       ELSE LET used == liveness_closure(set_to_queue(s.used_numbers),
                                         s.used_numbers, s.number_to_expression)
                t == rewrite_instrs(block.instrs, s.instruction_numbers, 1,
                                    RewriteInit(used))
            IN IF t.err # NoPanic THEN [err |-> t.err, block |-> block]
               ELSE [err |-> NoPanic, block |-> [block EXCEPT !.instrs = t.new_instrs]]

----------------------------------------------------------------------------
(* main                                                                    *)

\* serde_json::from_str(&buffer): absent Vec fields default to empty.
ParseProgram ==
    /\ pc = "parse"
    /\ program' = buffer
    /\ pc' = IF Len(buffer.functions) = 0 THEN "print" ELSE "build"
    /\ fi' = 1
    /\ UNCHANGED <<buffer, cfg, bi, panic, stdout>>

\* let cfg = construct_control_flow_graph(function);
BuildCFG ==
    /\ pc = "build"
    /\ LET r == construct_control_flow_graph(program.functions[fi])
       IN IF r.err = NoPanic
          THEN /\ cfg' = r.cfg
               /\ bi' = 1
               /\ pc' = "lvn"
               /\ panic' = panic
          ELSE /\ panic' = r.err
               /\ pc' = "panicked"
               /\ UNCHANGED <<cfg, bi>>
    /\ UNCHANGED <<buffer, program, fi, stdout>>

\* eliminate_dead_code: one iteration of  for block in cfg.blocks.iter_mut()
RunLVN ==
    /\ pc = "lvn"
    /\ bi <= Len(cfg.blocks)
    /\ LET r == run_local_value_numbering(cfg.blocks[bi])
       IN IF r.err = NoPanic
          THEN /\ cfg' = [cfg EXCEPT !.blocks[bi] = r.block]
               /\ bi' = bi + 1
               /\ UNCHANGED <<pc, panic>>
          ELSE /\ panic' = r.err
               /\ pc' = "panicked"
               /\ UNCHANGED <<cfg, bi>>
    /\ UNCHANGED <<buffer, program, fi, stdout>>

\* function.instrs = cfg.to_instrs(); and the step of main's loop
Flatten ==
    /\ pc = "lvn"
    /\ bi > Len(cfg.blocks)
    /\ program' = [program EXCEPT !.functions[fi].instrs = to_instrs(cfg)]
    /\ fi' = fi + 1
    /\ pc' = IF fi = Len(program.functions) THEN "print" ELSE "build"
    /\ cfg' = [blocks |-> <<>>]
    /\ bi' = 1
    /\ UNCHANGED <<buffer, panic, stdout>>

\* println!("{}", serde_json::to_string(&program))
PrintProgram ==
    /\ pc = "print"
    /\ stdout' = <<program>>
    /\ pc' = "done"
    /\ UNCHANGED <<buffer, program, fi, cfg, bi, panic>>

Next ==
    \/ ParseProgram
    \/ BuildCFG
    \/ RunLVN
    \/ Flatten
    \/ PrintProgram

----------------------------------------------------------------------------
(* Inputs                                                                  *)

MaxCfgLen == 4      \* instructions per function, control-flow inputs
MaxLvnLen == 4      \* instructions per function, straight-line inputs
MaxFuncs == 2       \* functions per program, malformed-IR inputs

LabelInstr(l) == Instruction(None, None, None, None, <<>>, <<>>, Some(l))
ConstInstr(d, v) == Instruction(Some("const"), Some(d), Some(v), Some("int"), <<>>, <<>>, None)
ValueInstr(op, d, args) == Instruction(Some(op), Some(d), None, Some("int"), args, <<>>, None)
EffectInstr(op, args, labels) == Instruction(Some(op), None, None, None, args, labels, None)

Function(name, args, instrs) == [name |-> name, args |-> args, instrs |-> instrs]
NamedArg(name) == [name |-> name, type |-> "int"]

SeqsUpTo(S, n) == UNION {[1..k -> S] : k \in 0..n}

\* Labels, terminators and a few value/effect instructions.
CfgInstrs ==
    {LabelInstr("L1"), LabelInstr("L2"),
     EffectInstr("jmp", <<>>, <<"L1">>),
     EffectInstr("jmp", <<>>, <<"L2">>),
     EffectInstr("br", <<"c">>, <<"L1", "L2">>),
     EffectInstr("ret", <<>>, <<>>),
     EffectInstr("ret", <<"d">>, <<>>),
     ConstInstr("c", 1), ConstInstr("d", 1),
     EffectInstr("print", <<"d">>, <<>>)}

CfgPrograms ==
    {[functions |-> <<Function("main", <<>>, is)>>] : is \in SeqsUpTo(CfgInstrs, MaxCfgLen)}

\* Straight-line code over two variables that are assigned more than once.
LvnInstrs ==
    {ConstInstr("a", 1), ConstInstr("b", 1), ConstInstr("a", 2),
     ValueInstr("add", "a", <<"a", "b">>),
     ValueInstr("add", "b", <<"a", "b">>),
     ValueInstr("add", "b", <<"b", "a">>),
     EffectInstr("print", <<"a">>, <<>>),
     EffectInstr("print", <<"b">>, <<>>),
     EffectInstr("print", <<"b", "a">>, <<>>)}

ExampleInstrs ==
    <<ConstInstr("a", 4), ConstInstr("b", 4),
      ValueInstr("add", "c", <<"a", "b">>),
      ValueInstr("add", "d", <<"a", "b">>),
      EffectInstr("print", <<"c">>, <<>>),
      EffectInstr("print", <<"d">>, <<>>)>>

ExampleOptimized ==
    <<ConstInstr("a", 4),
      ValueInstr("add", "c", <<"a", "a">>),
      EffectInstr("print", <<"c">>, <<>>),
      EffectInstr("print", <<"c">>, <<>>)>>

LvnPrograms ==
    {[functions |-> <<Function("main", as, is)>>] :
        as \in {<<>>, <<NamedArg("a")>>},
        is \in SeqsUpTo(LvnInstrs, MaxLvnLen) \cup {ExampleInstrs}}

\* Well-formed and malformed instructions; L1 is undefined unless the
\* function holds its marker.
ErrInstrs ==
    {LabelInstr("L1"),
     EffectInstr("jmp", <<>>, <<"L1">>),
     Instruction(None, Some("x"), None, Some("int"), <<>>, <<>>, None),
     Instruction(Some("const"), Some("x"), None, Some("int"), <<>>, <<>>, None),
     ConstInstr("a", 1),
     EffectInstr("print", <<"a">>, <<>>)}

ErrFunctions ==
    {Function("f", <<>>, <<x>>) : x \in ErrInstrs}
        \cup {Function("f", <<>>, <<x, y>>) : x \in ErrInstrs, y \in ErrInstrs}

ErrPrograms ==
    {[functions |-> fs] : fs \in SeqsUpTo(ErrFunctions, MaxFuncs)}

Boot ==
    /\ program = [functions |-> <<>>]
    /\ pc = "parse"
    /\ fi = 1
    /\ cfg = [blocks |-> <<>>]
    /\ bi = 1
    /\ panic = NoPanic
    /\ stdout = <<>>

InitCFG == buffer \in CfgPrograms /\ Boot
InitLVN == buffer \in LvnPrograms /\ Boot
InitErr == buffer \in ErrPrograms /\ Boot

SpecCFG == InitCFG /\ [][Next]_vars
SpecLVN == InitLVN /\ [][Next]_vars
SpecErr == InitErr /\ [][Next]_vars

----------------------------------------------------------------------------
(* Vocabulary of the properties                                            *)

Last(q) == q[Len(q)]

\* The graph has just been built and no block has been rewritten yet.
JustBuilt == pc = "lvn" /\ bi = 1

\* Blocks of the current function as they were before the pass: the
\* function's instruction list is untouched until Flatten.
OrigBlocks == form_blocks(program.functions[fi].instrs)

\* Blocks of the current function the pass has already rewritten.
Processed == IF pc = "lvn" THEN 1..(bi - 1) ELSE {}

SameButArgs(x, y) ==
    /\ [x EXCEPT !.args = <<>>] = [y EXCEPT !.args = <<>>]
    /\ Len(x.args) = Len(y.args)

HasDest(instr) == is_some(instr.dest)
NoDest(instr) == ~is_some(instr.dest)

\* Names defined by instrs[1..k-1].
DefinedBefore(instrs, k) == {unwrap(instrs[j].dest) : j \in {j \in 1..(k - 1) : HasDest(instrs[j])}}

\* Names the block reads before any instruction of the block defines them.
ExternalReads(instrs) ==
    {x \in UNION {{instrs[k].args[j] : j \in 1..Len(instrs[k].args)} : k \in 1..Len(instrs)} :
        \E k \in 1..Len(instrs) : \E j \in 1..Len(instrs[k].args) :
            instrs[k].args[j] = x /\ x \notin DefinedBefore(instrs, k)}

ArgNames(instrs) ==
    UNION {{instrs[k].args[j] : j \in 1..Len(instrs[k].args)} : k \in 1..Len(instrs)}

DestNames(instrs) == DefinedBefore(instrs, Len(instrs) + 1)

\* out is an order-preserving subsequence of orig, up to argument names.
RECURSIVE IsSubseqModArgs(_, _, _, _)
IsSubseqModArgs(out, i, orig, j) ==
    IF i > Len(out) THEN TRUE
    ELSE IF j > Len(orig) THEN FALSE
    ELSE IF SameButArgs(out[i], orig[j])
         THEN IsSubseqModArgs(out, i + 1, orig, j + 1)
              \/ IsSubseqModArgs(out, i, orig, j + 1)
         ELSE IsSubseqModArgs(out, i, orig, j + 1)

StripArgs(q) == [k \in 1..Len(q) |-> [q[k] EXCEPT !.args = <<>>]]

----------------------------------------------------------------------------
(* C1: block partition                                                     *)

\* C1: once construct_control_flow_graph has returned, concatenating the
\* blocks in block order gives back the function's instruction list, no
\* block is empty, a label marker occurs only at index 0 of a block and a
\* terminator only at the last index.
C1_BlockPartition ==
    JustBuilt =>
        /\ to_instrs(cfg) = program.functions[fi].instrs
        /\ \A b \in 1..Len(cfg.blocks) :
            LET is == cfg.blocks[b].instrs
            IN /\ is # <<>>
               /\ \A k \in 1..Len(is) :
                    /\ is_label(is[k]) => k = 1
                    /\ is_terminator(is[k]) => k = Len(is)

\* A function split into three blocks: one cut by a terminator in the
\* middle of the list, one started by a label.
C1_Witness ==
    /\ JustBuilt
    /\ Len(cfg.blocks) = 3
    /\ is_terminator(Last(cfg.blocks[1].instrs))
    /\ ~is_label(cfg.blocks[2].instrs[1])
    /\ is_label(cfg.blocks[3].instrs[1])
    /\ Len(program.functions[fi].instrs) = 4

----------------------------------------------------------------------------
(* C2: successors of a fall-through block                                  *)

\* C2: a block that does not end in a terminator has the next block as its
\* only successor, or no successor when it is the last block; every stored
\* successor index is an index of the block list.
C2_FallThroughSuccessors ==
    JustBuilt =>
        /\ \A b \in 1..Len(cfg.blocks) :
            ~is_terminator(Last(cfg.blocks[b].instrs)) =>
                cfg.blocks[b].next_blocks =
                    IF b < Len(cfg.blocks) THEN <<b>> ELSE <<>>
        /\ \A b \in 1..Len(cfg.blocks) :
            \A i \in 1..Len(cfg.blocks[b].next_blocks) :
                cfg.blocks[b].next_blocks[i] \in 0..(Len(cfg.blocks) - 1)

----------------------------------------------------------------------------
(* C3: successors of a block ending in a terminator                        *)

\* C3: a block ending in a terminator with labels L1..Ln has n successors,
\* the i-th being the index of a block whose first instruction is the
\* marker of Li; a block ending in ret (no labels) has no successors.
C3_TerminatorSuccessors ==
    JustBuilt =>
        \A b \in 1..Len(cfg.blocks) :
            LET t == Last(cfg.blocks[b].instrs)
                next == cfg.blocks[b].next_blocks
            IN is_terminator(t) =>
                /\ Len(next) = Len(t.labels)
                /\ \A i \in 1..Len(next) :
                    /\ next[i] \in 0..(Len(cfg.blocks) - 1)
                    /\ cfg.blocks[next[i] + 1].instrs[1].label = Some(t.labels[i])
                /\ (t.op = Some("ret") /\ t.labels = <<>>) => next = <<>>

\* A branch whose two targets are different blocks, in a function that
\* also has a block ending in ret.
C3_Witness ==
    /\ JustBuilt
    /\ \E b \in 1..Len(cfg.blocks) :
        /\ Last(cfg.blocks[b].instrs).op = Some("br")
        /\ Len(cfg.blocks[b].next_blocks) = 2
        /\ cfg.blocks[b].next_blocks[1] # cfg.blocks[b].next_blocks[2]
    /\ \E b \in 1..Len(cfg.blocks) :
        /\ Last(cfg.blocks[b].instrs).op = Some("ret")
        /\ cfg.blocks[b].next_blocks = <<>>

----------------------------------------------------------------------------
(* C8: malformed IR aborts the whole run                                   *)

LabelsOf(instrs) ==
    {unwrap(instrs[k].label) : k \in {k \in 1..Len(instrs) : is_label(instrs[k])}}

\* A jmp/br to a label the function does not define, a destination without
\* an opcode, or a const with a destination and no literal.
MalformedInstr(instr, instrs) ==
    \/ /\ instr.op \in {Some("jmp"), Some("br")}
       /\ \E i \in 1..Len(instr.labels) : instr.labels[i] \notin LabelsOf(instrs)
    \/ HasDest(instr) /\ instr.op = None
    \/ HasDest(instr) /\ instr.op = Some("const") /\ instr.value = None

MalformedFunction(f) ==
    \E k \in 1..Len(f.instrs) : MalformedInstr(f.instrs[k], f.instrs)

MalformedProgram(p) ==
    \E f \in 1..Len(p.functions) : MalformedFunction(p.functions[f])

\* C8: when some function of the input is malformed, nothing is ever
\* printed and main never gets to its println: the run is still in a loop
\* iteration or has panicked.
C8_MalformedAbortsRun ==
    MalformedProgram(buffer) =>
        /\ stdout = <<>>
        /\ pc \in {"parse", "build", "lvn", "panicked"}
        /\ pc = "panicked" <=> panic # NoPanic

\* The run panicked in the second function after the first, well-formed
\* one had been processed and written back.
C8_Witness ==
    /\ pc = "panicked"
    /\ fi = 2
    /\ ~MalformedFunction(buffer.functions[1])
    /\ MalformedFunction(buffer.functions[2])
    /\ program.functions[1].instrs # buffer.functions[1].instrs
    /\ stdout = <<>>

----------------------------------------------------------------------------
(* C9: what the pass leaves alone                                          *)

\* C9: in every rewritten block the instructions without a destination are
\* the same, in the same order, up to their argument names; the block is
\* an order-preserving subsequence of the original up to argument names;
\* the number of blocks, a leading label and a final terminator are
\* unchanged.
C9_FrameOfPass ==
    pc = "lvn" =>
        /\ Len(cfg.blocks) = Len(OrigBlocks)
        /\ \A b \in Processed :
            LET orig == OrigBlocks[b].instrs
                out == cfg.blocks[b].instrs
            IN /\ StripArgs(SelectSeq(out, NoDest)) = StripArgs(SelectSeq(orig, NoDest))
               /\ \A k \in 1..Len(SelectSeq(out, NoDest)) :
                    Len(SelectSeq(out, NoDest)[k].args) = Len(SelectSeq(orig, NoDest)[k].args)
               /\ IsSubseqModArgs(out, 1, orig, 1)
               /\ is_label(orig[1]) => (out # <<>> /\ out[1] = orig[1])
               /\ is_terminator(Last(orig)) =>
                    (out # <<>> /\ SameButArgs(Last(out), Last(orig)))

\* A rewritten block that starts with a label, ends in a terminator, lost
\* an instruction and had the argument of its terminator renamed.
C9_Witness ==
    /\ pc = "lvn"
    /\ \E b \in Processed :
        /\ is_label(OrigBlocks[b].instrs[1])
        /\ is_terminator(Last(OrigBlocks[b].instrs))
        /\ Len(cfg.blocks[b].instrs) < Len(OrigBlocks[b].instrs)
        /\ Last(cfg.blocks[b].instrs).args # Last(OrigBlocks[b].instrs).args

----------------------------------------------------------------------------
(* C4: reads of variables defined outside the block                        *)

\* C4: the pass does not panic on a block that reads a variable no earlier
\* instruction of the block defines, and the rewritten block still refers
\* to that variable.
C4_ExternalReadCompletes ==
    /\ (pc = "panicked" /\ panic # LabelNotFound) =>
            ExternalReads(cfg.blocks[bi].instrs) = {}
    /\ \A b \in Processed :
            ExternalReads(OrigBlocks[b].instrs) \subseteq ArgNames(cfg.blocks[b].instrs)

----------------------------------------------------------------------------
(* C5: idempotence                                                         *)

\* C5: running the pass again on a block it has rewritten succeeds and
\* returns the block unchanged.
C5_Idempotent ==
    \A b \in Processed :
        LET again == run_local_value_numbering(cfg.blocks[b])
        IN /\ again.err = NoPanic
           /\ again.block = cfg.blocks[b]

----------------------------------------------------------------------------
(* C6: soundness of dead code elimination                                  *)

\* C6: in a rewritten block every argument name is the destination of an
\* earlier kept instruction or a name the original block read from outside,
\* and no name whose only definitions were dropped is referenced.
C6_KeptArgsDefined ==
    \A b \in Processed :
        LET orig == OrigBlocks[b].instrs
            out == cfg.blocks[b].instrs
        IN /\ \A k \in 1..Len(out) : \A j \in 1..Len(out[k].args) :
                \/ out[k].args[j] \in DefinedBefore(out, k)
                \/ out[k].args[j] \in ExternalReads(orig)
           /\ (DestNames(orig) \ DestNames(out)) \cap ArgNames(out) = {}

----------------------------------------------------------------------------
(* C7: congruence                                                          *)

Min(S) == CHOOSE x \in S : \A y \in S : x <= y
Max(S) == CHOOSE x \in S : \A y \in S : x >= y

\* Value number held by variable x just before instruction i, given the
\* numbers the first loop assigned to the instructions.
NumberAt(instrs, inums, i, x) ==
    unwrap(inums[Max({j \in 1..(i - 1) : instrs[j].dest = Some(x)})])

\* Opcode with argument value numbers, or the literal of a const.
ExpressionAt(instrs, inums, i) ==
    IF instrs[i].op = Some("const")
    THEN ConstExpr(unwrap(instrs[i].value))
    ELSE OpExpr(unwrap(instrs[i].op),
                [k \in 1..Len(instrs[i].args) |-> NumberAt(instrs, inums, i, instrs[i].args[k])])

FirstProducer(inums, n) == Min({i \in 1..Len(inums) : inums[i] = Some(n)})

\* The block the claim describes: instructions without a destination and
\* the first producer of every used number, each argument replaced by the
\* destination of the first producer of the number it holds.
CongruentRewrite(instrs, inums, used) ==
    LET Kept(i) == \/ inums[i] = None
                   \/ /\ unwrap(inums[i]) \in used
                      /\ FirstProducer(inums, unwrap(inums[i])) = i
        Renamed(i) ==
            [instrs[i] EXCEPT !.args =
                [k \in 1..Len(instrs[i].args) |->
                    unwrap(instrs[FirstProducer(inums,
                        NumberAt(instrs, inums, i, instrs[i].args[k]))].dest)]]
        idx == SelectSeq([i \in 1..Len(instrs) |-> i], Kept)
    IN [k \in 1..Len(idx) |-> Renamed(idx[k])]

\* C7: destination-bearing instructions with the same opcode and argument
\* value numbers (or the same literal) get the same number; the rewritten
\* block keeps exactly the first producer of each used number and names
\* every argument after the first producer of its number; the example
\* block of the specification is rewritten as stated.
C7_Congruence ==
    /\ \A b \in Processed :
        LET orig == OrigBlocks[b].instrs
            s == number_instrs(orig, 1, NumberingInit)
            inums == s.instruction_numbers
            used == liveness_closure(set_to_queue(s.used_numbers), s.used_numbers,
                                     s.number_to_expression)
        IN /\ \A i, j \in {i \in 1..Len(orig) : HasDest(orig[i])} :
                ExpressionAt(orig, inums, i) = ExpressionAt(orig, inums, j)
                    => inums[i] = inums[j]
           /\ cfg.blocks[b].instrs = CongruentRewrite(orig, inums, used)
    /\ (pc = "done" /\ buffer.functions[1].instrs = ExampleInstrs) =>
            stdout[1].functions[1].instrs = ExampleOptimized

----------------------------------------------------------------------------
(* C10: observable equivalence within a block                              *)

Term(op, lit, args, var) == [op |-> op, lit |-> lit, args |-> args, var |-> var]

\* Value of a variable: the term bound to it, or the unknown incoming
\* value of that name when nothing in the block has defined it.
ValueOf(env, x) == IF x \in DOMAIN env THEN env[x] ELSE Term("incoming", <<>>, <<>>, x)

\* Execution of a block with uninterpreted opcodes: the sequence of effect
\* instructions with the values of their arguments.
RECURSIVE Effects(_, _, _, _)
Effects(instrs, i, env, trace) ==
    IF i > Len(instrs) THEN trace
    ELSE LET instr == instrs[i]
             vals == [k \in 1..Len(instr.args) |-> ValueOf(env, instr.args[k])]
         IN IF HasDest(instr)
            THEN Effects(instrs, i + 1,
                    map_insert(env, unwrap(instr.dest),
                        IF instr.op = Some("const")
                        THEN Term("const", instr.value, <<>>, "")
                        ELSE Term(unwrap(instr.op), <<>>, vals, "")),
                    trace)
            ELSE IF is_some(instr.op)
            THEN Effects(instrs, i + 1, env,
                    Append(trace, [op |-> unwrap(instr.op), args |-> vals,
                                   labels |-> instr.labels]))
            ELSE Effects(instrs, i + 1, env, trace)

\* C10: a rewritten block all of whose reads were defined in the block
\* gives every effect instruction the same argument values, in the same
\* order, as the original block.
C10_SameEffects ==
    \A b \in Processed :
        ExternalReads(OrigBlocks[b].instrs) = {} =>
            Effects(cfg.blocks[b].instrs, 1, EmptyMap, <<>>)
                = Effects(OrigBlocks[b].instrs, 1, EmptyMap, <<>>)

====
